---- MODULE Spec2Model ----
(***************************************************************************)
(* Model of src/common/thread_pool.py: MultiThreadProcessorWithResult, a   *)
(* batch runner that submits every task of a batch to a ThreadPoolExecutor *)
(* (each one wrapped in _run_with_retry), collects the futures with        *)
(* as_completed and keeps one TaskResult record per task.                  *)
(*                                                                         *)
(* Threads: the caller's thread executes run() (variable pc), and every    *)
(* submitted work item is executed by a pool thread (variable worker).     *)
(* Time is a discrete clock (variable now) read by time.time().            *)
(***************************************************************************)
EXTENDS Integers, Sequences, FiniteSets, TLC

\* ------------------------------------------------------------------ bounds
MaxTasks == 2
MaxRetry == 1
MaxWorkers == 2
MaxTimeout == 1
MaxTime == 3
\* the largest retry limit of the runs that look at the retry loop alone
MaxDeepRetry == 3
\* the number of run() calls on one processor
MaxRuns == 2

\* ------------------------------------------------------------- constants
\* class TaskStatus
PENDING == "PENDING"
RUNNING == "RUNNING"
COMPLETED == "COMPLETED"
FAILED == "FAILED"
TIMEOUT == "TIMEOUT"
RETRYING == "RETRYING"

Terminal == {COMPLETED, FAILED, TIMEOUT}

\* Python's None, for the str/object valued fields and for results
None == "None"
\* Python's None for the float valued fields start_time / end_time
NoTime == -1

\* the fixed error_message of the `except TimeoutError` branch of run()
TIMEOUT_MSG == "task execution timed out"

\* exception classes a work function raises; both are subclasses of Exception
ErrTypes == {"ValueError", "TimeoutError"}
\* values a work function returns
Values == {"v", None}

\* A work item (a zero-argument callable given to MyTaskProcessor): its first
\* `fails` invocations raise err(msg), every later invocation returns val.
\* (One representative where a field cannot matter: the error class of a work
\* item that never raises; None is returned by first-try successes only.)
TaskKinds ==
    {t \in [fails : 0..(MaxRetry + 1), err : ErrTypes, val : Values] :
        /\ (t.fails = 0 => t.err = "ValueError")
        /\ (t.fails > 0 => t.val = "v")}

Batches == UNION {[1..n -> TaskKinds] : n \in 0..MaxTasks}

VARIABLES
    max_workers,      \* self.max_workers
    retry,            \* self.retry
    timeout,          \* self.timeout
    tasks,            \* the argument of run()
    total_tasks,      \* self.total_tasks
    completed_tasks,  \* self.completed_tasks
    task_results,     \* self.task_results: task id -> TaskResult
    results,          \* the local list `results` of run(), its return value
    pc,               \* position of the thread that executes run()
    futures,          \* future_to_task_id: the Future of every submitted task
    worker,           \* per task: position of the pool thread inside _run_with_retry
    ac,               \* the as_completed generator
    cur,              \* the loop variables future / task_id / result of run()
    progress,         \* the lines logged by _report_progress
    now,              \* time.time()
    delivered,        \* history: task ids in the order their entry was appended to results
    settled,          \* history: task ids in the order their future finished
    settled_at,       \* history: task id -> time at which its future finished
    lock,             \* self.lock: "free", or the thread that holds it
    snapshot,         \* the dict a caller got from get_task_status(): key -> record object
    runs              \* history: the number of run() calls so far

vars == <<max_workers, retry, timeout, tasks, total_tasks, completed_tasks,
          task_results, results, pc, futures, worker, ac, cur, progress, now,
          delivered, settled, settled_at, lock, snapshot, runs>>

config == <<max_workers, retry, timeout>>
history == <<delivered, settled, settled_at>>

Ids == DOMAIN task_results

\* ------------------------------------------------------------- TaskResult
\* TaskResult.__init__
TaskResult(task) ==
    [original_task |-> task, result |-> None, status |-> PENDING,
     error_message |-> None, start_time |-> NoTime, end_time |-> NoTime,
     retry_count |-> 0]

\* (variant) the records of the batch are written into the dict of the
\* previous run (dict.update) instead of replacing it
NewTaskResults_update(batch) ==
    [i \in DOMAIN task_results \cup 0..(Len(batch) - 1) |->
        IF i < Len(batch) THEN TaskResult(batch[i + 1]) ELSE task_results[i]]

\* the dict comprehension of run(): one record per item, keyed by enumerate()
NewTaskResults(batch) == [i \in 0..(Len(batch) - 1) |-> TaskResult(batch[i + 1])]

\* a Future: state PENDING (queued), RUNNING, FINISHED; its result or exception
NoExc == [type |-> None, msg |-> None]
NewFuture == [state |-> "PENDING", result |-> None, exception |-> NoExc]

\* pool thread state for one work item
NewWorker == [pc |-> "queued", attempt |-> 0, calls |-> 0, slept |-> 0]

\* no dict obtained from get_task_status() yet
NoSnapshot == [taken |-> FALSE, refs |-> <<>>]

NoCur == [task_id |-> -1, wait_start |-> NoTime, ok |-> FALSE, result |-> None,
          exception |-> NoExc]

\* ------------------------------------------------------------------- Init
\* __init__: the state after construction, for the documented configurations
Init ==
    /\ max_workers \in 1..MaxWorkers
    /\ retry \in 0..MaxRetry
    /\ timeout \in 1..MaxTimeout
    /\ tasks = <<>>
    /\ total_tasks = 0
    /\ completed_tasks = 0
    /\ task_results = <<>>
    /\ results = <<>>
    /\ pc = "idle"
    /\ futures = <<>>
    /\ worker = <<>>
    /\ ac = [finished |-> {}, queue |-> <<>>, pending |-> {}, snapshot |-> {},
             installed |-> FALSE]
    /\ cur = NoCur
    /\ progress = <<>>
    /\ now = 1
    /\ delivered = <<>>
    /\ settled = <<>>
    /\ settled_at = <<>>
    /\ lock = "free"
    /\ snapshot = NoSnapshot
    /\ runs = 0

\* ---------------------------------------------------- the thread of run()
\* run(), up to the creation of the executor: counters reset, one fresh
\* record per task; ThreadPoolExecutor(max_workers) raises ValueError for
\* max_workers <= 0, which run() lets through
Run(batch) ==
    /\ pc = "idle"
    /\ tasks' = batch
    /\ total_tasks' = Len(batch)
    /\ completed_tasks' = 0
    /\ results' = <<>>
    /\ task_results' = NewTaskResults(batch)
    /\ futures' = <<>>
    /\ worker' = <<>>
    /\ pc' = IF max_workers > 0 THEN "submit" ELSE "raised"
    /\ runs' = runs + 1
    /\ UNCHANGED <<lock, snapshot, config, ac, cur, progress, now, history>>

\* one executor.submit(self._run_with_retry, task_id) of the dict comprehension:
\* the work item is queued, in enumerate() order
Submit ==
    /\ pc = "submit"
    /\ Cardinality(DOMAIN futures) < Len(tasks)
    /\ LET task_id == Cardinality(DOMAIN futures) IN
        /\ futures' = [i \in DOMAIN futures \cup {task_id} |->
                          IF i = task_id THEN NewFuture ELSE futures[i]]
        /\ worker' = [i \in DOMAIN worker \cup {task_id} |->
                          IF i = task_id THEN NewWorker ELSE worker[i]]
    /\ UNCHANGED <<runs, lock, snapshot, config, tasks, total_tasks, completed_tasks, task_results,
                   results, pc, ac, cur, progress, now, history>>

\* as_completed(future_to_task_id), entered once every task is submitted: the
\* futures already finished are set aside to be yielded first, a waiter is
\* installed on the others
AsCompleted ==
    /\ pc = "submit"
    /\ Cardinality(DOMAIN futures) = Len(tasks)
    /\ LET finished == {i \in DOMAIN futures : futures[i].state = "FINISHED"} IN
        ac' = [finished |-> finished, queue |-> <<>>,
               pending |-> DOMAIN futures \ finished,
               snapshot |-> finished, installed |-> TRUE]
    /\ pc' = "loop"
    /\ UNCHANGED <<runs, lock, snapshot, config, tasks, total_tasks, completed_tasks, task_results,
                   results, futures, worker, cur, progress, now, history>>

\* (variant) as_completed replaced by a plain iteration over the futures:
\* a future is handed out whether or not it has finished
AsCompletedReady_unfinished == ac.finished \cup ac.pending

\* the futures as_completed may yield next: those finished before the call, in
\* no particular order (a set), then the others in the order they finished
AsCompletedReady ==
    IF ac.finished # {} THEN ac.finished
    ELSE IF ac.queue # <<>> THEN {Head(ac.queue)}
    ELSE {}

\* (variant) the loop stops one future short
LoopExhausted_early == ac.finished = {} /\ Cardinality(ac.pending) <= 1

\* as_completed is exhausted once every future was yielded
LoopExhausted == ac.finished = {} /\ ac.pending = {}

\* `for future in as_completed(...)`: the next future, and its task's record
Yield ==
    /\ pc = "loop"
    /\ \E task_id \in AsCompletedReady :
        /\ ac' = [ac EXCEPT
                    !.finished = @ \ {task_id},
                    !.pending = @ \ {task_id},
                    !.queue = SelectSeq(@, LAMBDA j : j # task_id)]
        /\ cur' = [NoCur EXCEPT !.task_id = task_id, !.wait_start = now]
    /\ pc' = "result"
    /\ UNCHANGED <<runs, lock, snapshot, config, tasks, total_tasks, completed_tasks, task_results,
                   results, futures, worker, progress, now, history>>

\* Future.result(timeout): the outcome of a finished future at once; for an
\* unfinished one a TimeoutError once `timeout` has passed
ResultReady(f, wait_start) ==
    \/ f.state = "FINISHED"
    \/ now - wait_start >= timeout

ResultOutcome(f) ==
    IF f.state = "FINISHED"
    THEN [ok |-> f.exception = NoExc, result |-> f.result, exception |-> f.exception]
    ELSE [ok |-> FALSE, result |-> None,
          exception |-> [type |-> "TimeoutError", msg |-> ""]]

\* status written by the except branches of run(): `except TimeoutError` comes
\* first, `except Exception` second
StatusOnException(e) == IF e.type = "TimeoutError" THEN TIMEOUT ELSE FAILED

\* error_message written by the except branches: the fixed text, or str(e)
MessageOnException(e) == IF e.type = "TimeoutError" THEN TIMEOUT_MSG ELSE e.msg

\* (variant) the except branch forgets its results.append(None)
AppendPlaceholder_skip(rs) == rs

\* results.append(None) of the except branches
AppendPlaceholder(rs) == Append(rs, None)

\* future.result(timeout=self.timeout) and the first field write of the branch
\* taken: task_result.result (try) or task_result.status (except)
CollectFirst ==
    /\ pc = "result"
    /\ ResultReady(futures[cur.task_id], cur.wait_start)
    /\ LET o == ResultOutcome(futures[cur.task_id]) IN
        /\ cur' = [cur EXCEPT !.ok = o.ok, !.result = o.result,
                              !.exception = o.exception]
        /\ task_results' =
             IF o.ok
             THEN [task_results EXCEPT ![cur.task_id].result = o.result]
             ELSE [task_results EXCEPT
                     ![cur.task_id].status = StatusOnException(o.exception)]
    /\ pc' = "second"
    /\ UNCHANGED <<runs, lock, snapshot, config, tasks, total_tasks, completed_tasks, results,
                   futures, worker, ac, progress, now, history>>

\* the second field write of the branch and its results.append:
\* status = COMPLETED (try) or error_message (except)
CollectSecond ==
    /\ pc = "second"
    /\ IF cur.ok
       THEN /\ task_results' = [task_results EXCEPT ![cur.task_id].status = COMPLETED]
            /\ results' = Append(results, cur.result)
       ELSE /\ task_results' = [task_results EXCEPT
                 ![cur.task_id].error_message = MessageOnException(cur.exception)]
            /\ results' = AppendPlaceholder(results)
    /\ delivered' = Append(delivered, cur.task_id)
    /\ pc' = "finally"
    /\ UNCHANGED <<runs, lock, snapshot, config, tasks, total_tasks,
                   completed_tasks, futures, worker,
                   ac, cur, progress, now, settled, settled_at>>

\* the finally clause: end_time is written, then self.lock is acquired
Finally ==
    /\ pc = "finally"
    /\ lock = "free"
    /\ task_results' = [task_results EXCEPT ![cur.task_id].end_time = now]
    /\ lock' = "main"
    /\ pc' = "count"
    /\ UNCHANGED <<runs, snapshot, config, tasks, total_tasks, completed_tasks,
                   results, futures, worker, ac, cur, progress, now, history>>

\* (variant) the progress line is logged before the counter is incremented
ProgressLine_stale(completed, total) ==
    [percent |-> IF total > 0 THEN ((completed - 1) * 100) \div total ELSE 0,
     completed |-> completed - 1, total |-> total]

\* _report_progress: the percentage and completed/total
ProgressLine(completed, total) ==
    [percent |-> IF total > 0 THEN (completed * 100) \div total ELSE 0,
     completed |-> completed, total |-> total]

\* the body of `with self.lock`: the counter, _report_progress; the lock is
\* released when the block is left
Count ==
    /\ pc = "count"
    /\ lock = "main"
    /\ completed_tasks' = completed_tasks + 1
    /\ progress' = Append(progress, ProgressLine(completed_tasks + 1, total_tasks))
    /\ lock' = "free"
    /\ cur' = NoCur
    /\ pc' = "loop"
    /\ UNCHANGED <<runs, snapshot, config, tasks, total_tasks, task_results, results,
                   futures, worker, ac, now, history>>

\* (variant) the loop is left as soon as no finished future is at hand, and
\* the pool is shut down without joining its threads (shutdown(wait=False))
Shutdown_detached ==
    /\ pc = "loop"
    /\ ac.finished = {}
    /\ ac.queue = <<>>
    /\ pc' = "shutdown"
    /\ UNCHANGED <<runs, lock, snapshot, config, tasks, total_tasks, completed_tasks,
                   task_results, results, futures, worker, ac, cur, progress,
                   now, history>>

\* the end of the with block: executor.shutdown(wait=True) joins the pool threads
Shutdown ==
    /\ pc = "loop"
    /\ LoopExhausted
    /\ \A i \in DOMAIN worker : worker[i].pc = "done"
    /\ pc' = "shutdown"
    /\ UNCHANGED <<runs, lock, snapshot, config, tasks, total_tasks, completed_tasks, task_results,
                   results, futures, worker, ac, cur, progress, now, history>>

\* return results
Return ==
    /\ pc = "shutdown"
    /\ pc' = "returned"
    /\ UNCHANGED <<runs, lock, snapshot, config, tasks, total_tasks, completed_tasks, task_results,
                   results, futures, worker, ac, cur, progress, now, history>>

\* ------------------------------------------------------- the pool threads
\* work items a pool thread is executing
Active == {i \in DOMAIN worker : worker[i].pc \notin {"queued", "done"}}

\* (variant) the pool starts a thread per work item, ignoring max_workers
CanDequeue_unbounded(i) ==
    /\ worker[i].pc = "queued"
    /\ \A j \in DOMAIN worker : worker[j].pc = "queued" => i <= j

\* (variant) a pool thread whose work item raised is lost: its slot stays taken
CanDequeue_lostThread(i) ==
    /\ worker[i].pc = "queued"
    /\ \A j \in DOMAIN worker : worker[j].pc = "queued" => i <= j
    /\ Cardinality({j \in DOMAIN worker :
                      \/ worker[j].pc \notin {"queued", "done"}
                      \/ futures[j].exception # NoExc}) < max_workers

\* a pool thread may take work item i: it is the head of the executor's FIFO
\* work queue and fewer than max_workers threads are busy
CanDequeue(i) ==
    /\ worker[i].pc = "queued"
    /\ \A j \in DOMAIN worker : worker[j].pc = "queued" => i <= j
    /\ Cardinality(Active) < max_workers

\* a pool thread takes the work item from the queue; its future is now running
Dequeue(i) ==
    /\ CanDequeue(i)
    /\ worker' = [worker EXCEPT ![i].pc = "begin"]
    /\ futures' = [futures EXCEPT ![i].state = "RUNNING"]
    /\ UNCHANGED <<runs, lock, snapshot, config, tasks, total_tasks, completed_tasks, task_results,
                   results, pc, ac, cur, progress, now, history>>

\* (variant) the recorded futures are yielded newest first
WaiterAdd_lifo(queue, i) == <<i>> \o queue

\* (variant) the waiter forgets a future that finished after the call
WaiterAdd_lost(queue, i) == queue

\* the waiter of as_completed records a future that finished after the call;
\* as_completed yields the recorded futures oldest first
WaiterAdd(queue, i) == Append(queue, i)

\* Future.set_result / Future.set_exception, run by the pool thread when
\* _run_with_retry returns or raises: the future is finished and the waiters
\* are told
Settle(i, value, exc) ==
    /\ futures' = [futures EXCEPT ![i] =
                      [state |-> "FINISHED", result |-> value, exception |-> exc]]
    /\ ac' = IF ac.installed /\ i \in ac.pending
             THEN [ac EXCEPT !.queue = WaiterAdd(@, i)]
             ELSE ac
    /\ settled' = Append(settled, i)
    /\ settled_at' = [j \in DOMAIN settled_at \cup {i} |->
                         IF j = i THEN now ELSE settled_at[j]]
    /\ worker' = [worker EXCEPT ![i].pc = "done"]

\* (variant) the status is left as it is when the work item is started
Begin_noRunning(i) ==
    /\ worker[i].pc = "begin"
    /\ task_results' = [task_results EXCEPT ![i].start_time = now]
    /\ worker' = [worker EXCEPT ![i].pc = "attempt", ![i].attempt = 0]
    /\ UNCHANGED <<futures, ac, settled, settled_at>>
    /\ UNCHANGED <<runs, lock, snapshot, config, tasks, total_tasks, completed_tasks,
                   results, pc, cur, progress, now, delivered>>

\* _run_with_retry, before the loop: start_time and status RUNNING. When
\* range(self.retry + 1) is empty (retry < 0) the loop body never runs and the
\* function returns None without calling process
Begin(i) ==
    /\ worker[i].pc = "begin"
    /\ task_results' = [task_results EXCEPT ![i].start_time = now,
                                            ![i].status = RUNNING]
    /\ IF retry + 1 > 0
       THEN /\ worker' = [worker EXCEPT ![i].pc = "attempt", ![i].attempt = 0]
            /\ UNCHANGED <<futures, ac, settled, settled_at>>
       ELSE Settle(i, None, NoExc)
    /\ UNCHANGED <<runs, lock, snapshot, config, tasks, total_tasks, completed_tasks,
                   results, pc, cur, progress, now, delivered>>

\* (variant) retries counted from the first attempt
RetryCountFor_plusOne(attempt) == attempt + 1

\* retry_count written at the head of a retry attempt
RetryCountFor(attempt) == attempt

\* head of one iteration of `for attempt in range(self.retry + 1)`: for a
\* retry, status RETRYING and retry_count; then self.process(task) is called
AttemptStart(i) ==
    /\ worker[i].pc = "attempt"
    /\ task_results' =
         IF worker[i].attempt > 0
         THEN [task_results EXCEPT ![i].status = RETRYING,
                                   ![i].retry_count = RetryCountFor(worker[i].attempt)]
         ELSE task_results
    /\ worker' = [worker EXCEPT ![i].pc = "call", ![i].calls = @ + 1]
    /\ UNCHANGED <<runs, lock, snapshot, config, tasks, total_tasks, completed_tasks, results, pc,
                   futures, ac, cur, progress, now, history>>

\* the work item _run_with_retry runs for task_id
OriginalTask(i) == task_results[i].original_task

\* MyTaskProcessor.process(task) = task(): the n-th invocation (n = 1, 2, ...)
\* raises while n <= fails, and returns val afterwards
ProcessRaises(task, n) == n <= task.fails
ProcessException(task) == [type |-> task.err, msg |-> "error"]

\* (variant) one retry too few
ShouldRetry_short(attempt) == attempt < retry - 1

\* (variant) the last failure is retried too
ShouldRetry_oneMore(attempt) == attempt <= retry

\* `if attempt < self.retry` of the except clause: sleep and try again
ShouldRetry(attempt) == attempt < retry

\* self.process(task) returns: _run_with_retry returns the value
CallReturn(i) ==
    /\ worker[i].pc = "call"
    /\ ~ProcessRaises(OriginalTask(i), worker[i].calls)
    /\ Settle(i, OriginalTask(i).val, NoExc)
    /\ UNCHANGED <<runs, lock, snapshot, config, tasks, total_tasks, completed_tasks, task_results,
                   results, pc, cur, progress, now, delivered>>

\* (variant) the same delay before every retry
Backoff_constant(attempt) == 1

\* the argument of time.sleep(0.1 * (attempt + 1)), in units of 0.1 s
Backoff(attempt) == attempt + 1

\* self.process(task) raises: the except clause sleeps before the next
\* attempt, or re-raises after the last one
CallRaise(i) ==
    /\ worker[i].pc = "call"
    /\ ProcessRaises(OriginalTask(i), worker[i].calls)
    /\ IF ShouldRetry(worker[i].attempt)
       THEN /\ worker' = [worker EXCEPT ![i].pc = "sleep",
                                        ![i].slept = @ + Backoff(worker[i].attempt)]
            /\ UNCHANGED <<futures, ac, settled, settled_at>>
       ELSE Settle(i, None, ProcessException(OriginalTask(i)))
    /\ UNCHANGED <<runs, lock, snapshot, config, tasks, total_tasks, completed_tasks, task_results,
                   results, pc, cur, progress, now, delivered>>

\* time.sleep(0.1 * (attempt + 1)) is over: next iteration of the loop
SleepEnd(i) ==
    /\ worker[i].pc = "sleep"
    /\ worker' = [worker EXCEPT ![i].pc = "attempt", ![i].attempt = @ + 1]
    /\ UNCHANGED <<runs, lock, snapshot, config, tasks, total_tasks, completed_tasks, task_results,
                   results, pc, futures, ac, cur, progress, now, history>>

\* time passes while run() is in progress
Tick ==
    /\ pc \notin {"idle", "returned"}
    /\ now < MaxTime
    /\ now' = now + 1
    /\ UNCHANGED <<runs, lock, snapshot, config, tasks, total_tasks, completed_tasks, task_results,
                   results, pc, futures, worker, ac, cur, progress, history>>

\* ------------------------------------------------------------------ Spec
Next ==
    \/ \E batch \in Batches : Run(batch)
    \/ Submit
    \/ AsCompleted
    \/ Yield
    \/ CollectFirst
    \/ CollectSecond
    \/ Finally
    \/ Count
    \/ Shutdown
    \/ Return
    \/ \E i \in DOMAIN worker : Dequeue(i)
    \/ \E i \in DOMAIN worker : Begin(i)
    \/ \E i \in DOMAIN worker : AttemptStart(i)
    \/ \E i \in DOMAIN worker : CallReturn(i)
    \/ \E i \in DOMAIN worker : CallRaise(i)
    \/ \E i \in DOMAIN worker : SleepEnd(i)
    \/ Tick

Spec == Init /\ [][Next]_vars

\* __init__ stores its arguments as they are: the state after construction
\* for any configuration, the undocumented ones included
InitCfg ==
    /\ max_workers \in 0..MaxWorkers
    /\ retry \in -1..MaxRetry
    /\ timeout \in 0..MaxTimeout
    /\ tasks = <<>>
    /\ total_tasks = 0
    /\ completed_tasks = 0
    /\ task_results = <<>>
    /\ results = <<>>
    /\ pc = "idle"
    /\ futures = <<>>
    /\ worker = <<>>
    /\ ac = [finished |-> {}, queue |-> <<>>, pending |-> {}, snapshot |-> {},
             installed |-> FALSE]
    /\ cur = NoCur
    /\ progress = <<>>
    /\ now = 1
    /\ delivered = <<>>
    /\ settled = <<>>
    /\ settled_at = <<>>
    /\ lock = "free"
    /\ snapshot = NoSnapshot
    /\ runs = 0

SpecCfg == InitCfg /\ [][Next]_vars

\* ------------------------------------------------------- the retry loop
\* Runs that exercise _run_with_retry with larger retry limits: work items
\* that fail 0..MaxDeepRetry+1 times, under retry limits 0..MaxDeepRetry.
RetryKinds == [fails : 0..(MaxDeepRetry + 1), err : {"ValueError"}, val : {"v"}]

RetryBatches == UNION {[1..n -> RetryKinds] : n \in 1..MaxTasks}

InitRetry ==
    /\ max_workers = MaxWorkers
    /\ retry \in 0..MaxDeepRetry
    /\ timeout = MaxTimeout
    /\ tasks = <<>>
    /\ total_tasks = 0
    /\ completed_tasks = 0
    /\ task_results = <<>>
    /\ results = <<>>
    /\ pc = "idle"
    /\ futures = <<>>
    /\ worker = <<>>
    /\ ac = [finished |-> {}, queue |-> <<>>, pending |-> {}, snapshot |-> {},
             installed |-> FALSE]
    /\ cur = NoCur
    /\ progress = <<>>
    /\ now = 1
    /\ delivered = <<>>
    /\ settled = <<>>
    /\ settled_at = <<>>
    /\ lock = "free"
    /\ snapshot = NoSnapshot
    /\ runs = 0

NextRetry ==
    \/ \E batch \in RetryBatches : Run(batch)
    \/ Submit
    \/ AsCompleted
    \/ Yield
    \/ CollectFirst
    \/ CollectSecond
    \/ Finally
    \/ Count
    \/ Shutdown
    \/ Return
    \/ \E i \in DOMAIN worker : Dequeue(i)
    \/ \E i \in DOMAIN worker : Begin(i)
    \/ \E i \in DOMAIN worker : AttemptStart(i)
    \/ \E i \in DOMAIN worker : CallReturn(i)
    \/ \E i \in DOMAIN worker : CallRaise(i)
    \/ \E i \in DOMAIN worker : SleepEnd(i)
    \/ Tick

SpecRetry == InitRetry /\ [][NextRetry]_vars

\* ------------------------------------------------------------------ reuse
\* run() called again on the same processor after a run() has returned: the
\* same code as Run. The executor, its futures and threads, the as_completed
\* generator and the list `results` are locals of one call, so the new call
\* starts with new ones; the log keeps the lines of the earlier call.
Rerun(batch) ==
    /\ pc = "returned"
    /\ runs < MaxRuns
    /\ tasks' = batch
    /\ total_tasks' = Len(batch)
    /\ completed_tasks' = 0
    /\ results' = <<>>
    /\ task_results' = NewTaskResults(batch)
    /\ futures' = <<>>
    /\ worker' = <<>>
    /\ ac' = [finished |-> {}, queue |-> <<>>, pending |-> {}, snapshot |-> {},
              installed |-> FALSE]
    /\ delivered' = <<>>
    /\ settled' = <<>>
    /\ settled_at' = <<>>
    /\ pc' = IF max_workers > 0 THEN "submit" ELSE "raised"
    /\ runs' = runs + 1
    /\ UNCHANGED <<lock, snapshot, config, cur, progress, now>>

\* work items of the batches of a reused processor: a first-try success, a
\* success after one failure, a task that fails on every attempt
RerunKinds == {t \in TaskKinds : t.val = "v" /\ t.err = "ValueError"}

RerunBatches == UNION {[1..n -> RerunKinds] : n \in 0..MaxTasks}

\* a processor of any documented configuration
InitRerun == Init

NextRerun ==
    \/ \E batch \in RerunBatches : Run(batch)
    \/ \E batch \in RerunBatches : Rerun(batch)
    \/ Submit
    \/ AsCompleted
    \/ Yield
    \/ CollectFirst
    \/ CollectSecond
    \/ Finally
    \/ Count
    \/ Shutdown
    \/ Return
    \/ \E i \in DOMAIN worker : Dequeue(i)
    \/ \E i \in DOMAIN worker : Begin(i)
    \/ \E i \in DOMAIN worker : AttemptStart(i)
    \/ \E i \in DOMAIN worker : CallReturn(i)
    \/ \E i \in DOMAIN worker : CallRaise(i)
    \/ \E i \in DOMAIN worker : SleepEnd(i)
    \/ Tick

SpecRerun == InitRerun /\ [][NextRerun]_vars

\* ------------------------------------------------------------- scheduling
\* the steps of the thread that executes run(), once run() was called
MainStep ==
    \/ Submit \/ AsCompleted \/ Yield \/ CollectFirst \/ CollectSecond
    \/ Finally \/ Count \/ Shutdown \/ Return

\* the steps of the pool thread that executes work item i; a call of the work
\* function ends in CallReturn or CallRaise
WorkerStep(i) ==
    /\ i \in DOMAIN worker
    /\ \/ Dequeue(i) \/ Begin(i) \/ AttemptStart(i)
       \/ CallReturn(i) \/ CallRaise(i) \/ SleepEnd(i)

\* The operating system schedules every thread that can run: the thread of
\* run() and every pool thread keep taking steps while they have one.
\* Work items for the runs under fair scheduling: one per way through the
\* retry loop and the collecting loop (the returned value and, short of the
\* last failure, the class of the error do not decide which step comes next).
FairKinds ==
    {t \in TaskKinds :
        /\ t.val = "v"
        /\ t.err = "TimeoutError" => t.fails = MaxRetry + 1}

FairBatches == UNION {[1..n -> FairKinds] : n \in 0..MaxTasks}

NextFair ==
    \/ \E batch \in FairBatches : Run(batch)
    \/ Submit
    \/ AsCompleted
    \/ Yield
    \/ CollectFirst
    \/ CollectSecond
    \/ Finally
    \/ Count
    \/ Shutdown
    \/ Return
    \/ \E i \in DOMAIN worker : Dequeue(i)
    \/ \E i \in DOMAIN worker : Begin(i)
    \/ \E i \in DOMAIN worker : AttemptStart(i)
    \/ \E i \in DOMAIN worker : CallReturn(i)
    \/ \E i \in DOMAIN worker : CallRaise(i)
    \/ \E i \in DOMAIN worker : SleepEnd(i)
    \/ Tick

SpecFair ==
    /\ Init
    /\ [][NextFair]_vars
    /\ WF_vars(MainStep)
    /\ \A i \in 0..(MaxTasks - 1) : WF_vars(WorkerStep(i))

\* --------------------------------------------------------------- readers
\* get_task_status(): self.task_results.copy()
get_task_status == task_results

\* Python floats: a finite number, float('inf') or -float('inf')
Fin(n) == [inf |-> 0, n |-> n]
PosInf == [inf |-> 1, n |-> 0]
NegInf == [inf |-> -1, n |-> 0]

\* a - b for floats (inf - inf, a NaN, does not occur: a is finite here)
FSub(a, b) ==
    IF a.inf = 0 /\ b.inf = 0 THEN Fin(a.n - b.n)
    ELSE IF b.inf = 1 THEN NegInf
    ELSE IF b.inf = -1 THEN PosInf
    ELSE a

\* max((r.end_time or 0) for r in self.task_results.values())
MaxEnd ==
    LET ends == {IF task_results[i].end_time = NoTime THEN 0
                 ELSE task_results[i].end_time : i \in Ids}
    IN Fin(CHOOSE m \in ends : \A e \in ends : e <= m)

\* min((r.start_time or float('inf')) for r in self.task_results.values())
MinStart ==
    LET starts == {task_results[i].start_time : i \in Ids} \ {NoTime}
    IN IF starts = {} THEN PosInf
       ELSE Fin(CHOOSE m \in starts : \A e \in starts : m <= e)

\* (variant) the count of a status is overwritten instead of incremented
StatusCounts_overwrite ==
    [st \in {task_results[i].status : i \in Ids} |-> 1]

\* the dict `statuses` of get_statistics: status -> number of records
StatusCounts ==
    [st \in {task_results[i].status : i \in Ids} |->
        Cardinality({i \in Ids : task_results[i].status = st})]

\* get_statistics(): a marker when there is no record, else the counters, the
\* breakdown and max end - min start, replaced by 0 when it equals inf
get_statistics ==
    IF Ids = {}
    THEN [status |-> "no tasks executed"]
    ELSE LET total_time == FSub(MaxEnd, MinStart) IN
         [total_tasks |-> total_tasks,
          completed |-> completed_tasks,
          statuses |-> StatusCounts,
          total_time |-> IF total_time # PosInf THEN total_time ELSE Fin(0)]

\* ---------------------------------------------------------------- caller
\* Code that called run() and then reads the records. The dict returned by
\* get_task_status() is a new dict whose values are the engine's own
\* TaskResult objects: refs maps each key to the id of the engine record it
\* references (ForeignRecord: an object the caller made itself).
ForeignRecord == -1

\* snapshot = processor.get_task_status()
GetTaskStatus ==
    /\ pc = "returned"
    /\ ~snapshot.taken
    /\ snapshot' = [taken |-> TRUE, refs |-> [k \in Ids |-> k]]
    /\ UNCHANGED <<runs, lock, config, tasks, total_tasks, completed_tasks,
                   task_results, results, pc, futures, worker, ac, cur,
                   progress, now, history>>

\* del snapshot[k]
SnapshotPop(k) ==
    /\ snapshot.taken
    /\ k \in DOMAIN snapshot.refs
    /\ snapshot' = [snapshot EXCEPT
                      !.refs = [j \in DOMAIN snapshot.refs \ {k} |-> snapshot.refs[j]]]
    /\ UNCHANGED <<runs, lock, config, tasks, total_tasks, completed_tasks,
                   task_results, results, pc, futures, worker, ac, cur,
                   progress, now, history>>

\* snapshot[len(tasks)] = TaskResult(...): an entry under a new key
SnapshotAdd ==
    /\ snapshot.taken
    /\ Len(tasks) \notin DOMAIN snapshot.refs
    /\ snapshot' = [snapshot EXCEPT
                      !.refs = [j \in DOMAIN snapshot.refs \cup {Len(tasks)} |->
                                  IF j = Len(tasks) THEN ForeignRecord
                                  ELSE snapshot.refs[j]]]
    /\ UNCHANGED <<runs, lock, config, tasks, total_tasks, completed_tasks,
                   task_results, results, pc, futures, worker, ac, cur,
                   progress, now, history>>

\* snapshot[k].status = TaskStatus.PENDING: an attribute write on the object
\* the entry references
SnapshotSetStatus(k) ==
    /\ snapshot.taken
    /\ k \in DOMAIN snapshot.refs
    /\ snapshot.refs[k] \in Ids
    /\ task_results[snapshot.refs[k]].status # PENDING
    /\ task_results' = [task_results EXCEPT ![snapshot.refs[k]].status = PENDING]
    /\ UNCHANGED <<runs, lock, snapshot, config, tasks, total_tasks, completed_tasks,
                   results, pc, futures, worker, ac, cur, progress, now, history>>

NextCaller ==
    \/ Next
    \/ GetTaskStatus
    \/ \E k \in DOMAIN snapshot.refs : SnapshotPop(k)
    \/ SnapshotAdd
    \/ \E k \in DOMAIN snapshot.refs : SnapshotSetStatus(k)

\* runs of a single-worker processor, followed by a caller
InitCaller == Init /\ max_workers = 1

SpecCaller == InitCaller /\ [][NextCaller]_vars

\* ------------------------------------------------------------- properties
Returned == pc = "returned"

Range(seq) == {seq[p] : p \in 1..Len(seq)}
Pos(seq, x) == CHOOSE p \in 1..Len(seq) : seq[p] = x

\* every step of the program but the passing of time
Progress ==
    \/ \E batch \in Batches : Run(batch)
    \/ Submit \/ AsCompleted \/ Yield \/ CollectFirst \/ CollectSecond
    \/ Finally \/ Count \/ Shutdown \/ Return
    \/ \E i \in DOMAIN worker :
          \/ Dequeue(i) \/ Begin(i) \/ AttemptStart(i)
          \/ CallReturn(i) \/ CallRaise(i) \/ SleepEnd(i)

\* C1: once run() has returned, get_task_status() holds exactly N records, with
\* ids 0..N-1, record i wrapping the i-th input item, each in a terminal status.
C1_RecordsTerminalAfterRun ==
    Returned =>
        /\ DOMAIN get_task_status = 0..(Len(tasks) - 1)
        /\ Cardinality(DOMAIN get_task_status) = Len(tasks)
        /\ \A i \in DOMAIN get_task_status :
              /\ get_task_status[i].original_task = tasks[i + 1]
              /\ get_task_status[i].status \in Terminal

C1_Witness ==
    /\ Returned
    /\ Len(tasks) = MaxTasks
    /\ \E i \in Ids : task_results[i].status = COMPLETED
    /\ \E i \in Ids : task_results[i].status = FAILED

\* C2: a task whose work function fails on its first k <= retry attempts and
\* succeeds on attempt k+1 ends COMPLETED with retry_count = k and the value of
\* the successful attempt as result (k = 0: first-try success, retry_count 0).
C2_FailKThenSucceed ==
    Returned =>
        \A i \in Ids :
            LET t == tasks[i + 1] IN
            t.fails <= retry =>
                /\ task_results[i].status = COMPLETED
                /\ task_results[i].retry_count = t.fails
                /\ task_results[i].result = t.val

C2_Witness ==
    /\ Returned
    /\ retry = MaxRetry
    /\ \E i \in Ids :
          /\ tasks[i + 1].fails = retry
          /\ task_results[i].status = COMPLETED
          /\ task_results[i].retry_count = retry
    /\ \E i \in Ids :
          /\ tasks[i + 1].fails = 0
          /\ task_results[i].retry_count = 0

\* C3 (as claimed): a task whose work function fails on every attempt ends
\* FAILED with retry_count = retry and an error_message.
C3_AlwaysFailingEndsFailed ==
    Returned =>
        \A i \in Ids :
            tasks[i + 1].fails > retry =>
                /\ task_results[i].status = FAILED
                /\ task_results[i].retry_count = retry
                /\ task_results[i].error_message # None

\* C4 (as claimed): a task whose execution (all attempts) took longer than the
\* configured timeout to settle ends TIMEOUT, with the fixed message and a
\* placeholder in the output.
C4_SlowTaskEndsTimeout ==
    Returned =>
        \A i \in Ids :
            settled_at[i] - task_results[i].start_time > timeout =>
                /\ task_results[i].status = TIMEOUT
                /\ task_results[i].error_message = TIMEOUT_MSG
                /\ results[Pos(delivered, i)] = None

\* C5: in every state retry_count <= retry for every record, and no step of a
\* run decreases a record's retry_count.
C5_RetryCountBounded ==
    /\ [](\A i \in Ids : task_results[i].retry_count <= retry)
    /\ [][\A i \in DOMAIN task_results \cap DOMAIN task_results' :
            task_results'[i].retry_count >= task_results[i].retry_count]_vars

C5_Witness ==
    /\ retry = MaxRetry
    /\ \E i \in Ids : /\ task_results[i].retry_count = retry
                      /\ task_results[i].status = RETRYING

\* C6: a record's status becomes terminal in one step of the collecting loop,
\* for the future the loop currently holds and whose entry is not yet in the
\* output, and a terminal status never changes afterwards.
C6_TerminalIsFinal ==
    [][\A i \in DOMAIN task_results \cap DOMAIN task_results' :
          /\ task_results[i].status \in Terminal =>
                task_results'[i].status = task_results[i].status
          /\ (task_results[i].status \notin Terminal
                /\ task_results'[i].status \in Terminal) =>
                /\ cur.task_id = i
                /\ pc \in {"result", "second"}
                /\ i \notin Range(delivered)]_vars

C6_Witness ==
    \E i, j \in Ids :
        /\ task_results[i].status \in Terminal
        /\ task_results[i].end_time # NoTime
        /\ j \in Active
        /\ task_results[j].status = RETRYING

\* the status a work item reaches when it is the only task of a batch
StatusAlone(t) ==
    IF t.fails <= retry THEN COMPLETED
    ELSE IF t.err = "TimeoutError" THEN TIMEOUT ELSE FAILED

\* C7: failures and timeouts do not abort the batch: until run() has returned
\* some step of it is always possible, and when it has returned every task was
\* executed and has the terminal status it reaches when run alone.
C7_FailuresDoNotAbortBatch ==
    /\ pc \notin {"idle", "returned"} => ENABLED Progress
    /\ Returned =>
          \A i \in Ids :
              /\ worker[i].calls >= 1
              /\ task_results[i].status = StatusAlone(tasks[i + 1])

C7_Witness ==
    /\ Returned
    /\ max_workers = 1
    /\ \E i, j \in Ids :
          /\ i < j
          /\ task_results[i].status \in {FAILED, TIMEOUT}
          /\ task_results[j].status = COMPLETED

\* C8: at most max_workers work items are being executed at a time; a work item
\* no pool thread has taken is still PENDING and unstarted, and it can be taken
\* as soon as fewer than max_workers are being executed.
C8_AtMostMaxWorkers ==
    /\ Cardinality(Active) <= max_workers
    /\ Cardinality({i \in Ids : /\ i \in Active
                                /\ task_results[i].status \in {RUNNING, RETRYING}})
          <= max_workers
    /\ \A i \in DOMAIN worker :
          worker[i].pc = "queued" =>
              /\ task_results[i].status = PENDING
              /\ task_results[i].start_time = NoTime
    /\ ((\E i \in DOMAIN worker : worker[i].pc = "queued")
          /\ Cardinality(Active) < max_workers)
        => ENABLED (\E i \in DOMAIN worker : Dequeue(i))

C8_Witness ==
    /\ Cardinality(Active) = max_workers
    /\ \A i \in Active : task_results[i].status \in {RUNNING, RETRYING}
    /\ \E i \in DOMAIN worker : worker[i].pc = "queued"

\* C9: run() returns a sequence of length N with one entry per task: the value
\* of a COMPLETED task, None for a FAILED or TIMEOUT one, so the entries of
\* non-completed tasks are as many as the FAILED and TIMEOUT records.
C9_OutputOnePerTask ==
    Returned =>
        /\ Len(results) = Len(tasks)
        /\ Len(delivered) = Len(tasks)
        /\ Range(delivered) = Ids
        /\ \A p \in 1..Len(delivered) :
              results[p] = IF task_results[delivered[p]].status = COMPLETED
                           THEN tasks[delivered[p] + 1].val
                           ELSE None
        /\ Cardinality({p \in 1..Len(delivered) :
                          task_results[delivered[p]].status # COMPLETED})
             = Cardinality({i \in Ids : task_results[i].status \in {FAILED, TIMEOUT}})

C9_Witness ==
    /\ Returned
    /\ Len(results) = MaxTasks
    /\ \E p, q \in 1..Len(results) :
          /\ task_results[delivered[p]].status = COMPLETED
          /\ results[p] = "v"
          /\ task_results[delivered[q]].status \in {FAILED, TIMEOUT}
          /\ results[q] = None

\* task j settled strictly before task i
SettledBefore(j, i) ==
    /\ j \in Range(settled)
    /\ i \in Range(settled)
    /\ Pos(settled, j) < Pos(settled, i)

\* C10 (as claimed): first completed, first delivered: when task j settled
\* before task i, j's entry precedes i's in the output.
C10_FirstCompletedFirstDelivered ==
    \A i \in Range(delivered) :
        \A j \in Range(settled) :
            SettledBefore(j, i) =>
                /\ j \in Range(delivered)
                /\ Pos(delivered, j) < Pos(delivered, i)

\* C10 (amended): when task j settled before task i, and i had not yet settled
\* when as_completed was called, j's entry precedes i's in the output.
C10_DeliveredInSettleOrderAfterCall ==
    \A i \in Range(delivered) \ ac.snapshot :
        \A j \in Range(settled) :
            SettledBefore(j, i) =>
                /\ j \in Range(delivered)
                /\ Pos(delivered, j) < Pos(delivered, i)

C10_Witness ==
    /\ Returned
    /\ delivered = <<1, 0>>
    /\ settled = <<1, 0>>
    /\ ac.snapshot = {}

\* C11 (as claimed, the docstring of run()): the returned list is in input
\* order, its i-th element is the outcome of the i-th task.
C11_ResultsInInputOrder ==
    Returned =>
        /\ Len(results) = Len(tasks)
        /\ \A i \in Ids :
              results[i + 1] = IF task_results[i].status = COMPLETED
                               THEN task_results[i].result
                               ELSE None

RECURSIVE SumCounts(_)
SumCounts(f) ==
    IF DOMAIN f = {} THEN 0
    ELSE LET k == CHOOSE k \in DOMAIN f : TRUE
         IN f[k] + SumCounts([j \in DOMAIN f \ {k} |-> f[j]])

\* what the claim says get_statistics() reports for a batch of n tasks
ReportsBatch(st, n) ==
    /\ DOMAIN st = {"total_tasks", "completed", "statuses", "total_time"}
    /\ st.total_tasks = n
    /\ st.completed = n
    /\ SumCounts(st.statuses) = n
    /\ \A k \in DOMAIN st.statuses :
          st.statuses[k] = Cardinality({i \in Ids : task_results[i].status = k})

\* C12 (as claimed): after run() has returned, for every N >= 0,
\* get_statistics() reports total N, completed N and a breakdown summing to N.
C12_StatisticsAfterRun == Returned => ReportsBatch(get_statistics, Len(tasks))

\* C12 (amended): after run() has returned, for every N >= 1 get_statistics()
\* reports total N, completed N and a breakdown summing to N; for the empty
\* batch it reports only the marker that no task was executed.
C12_StatisticsAfterNonEmptyRun ==
    Returned =>
        IF Len(tasks) >= 1
        THEN ReportsBatch(get_statistics, Len(tasks))
        ELSE get_statistics = [status |-> "no tasks executed"]

C12_Witness ==
    /\ Returned
    /\ Len(tasks) = MaxTasks
    /\ get_statistics.completed = MaxTasks
    /\ \E k \in DOMAIN get_statistics.statuses : get_statistics.statuses[k] >= 2

\* C13 (as claimed): in every state a record read through get_task_status()
\* with a terminal status has exactly one of result / error_message set, and
\* its end_time set.
C13_TerminalRecordComplete ==
    \A i \in DOMAIN get_task_status :
        LET r == get_task_status[i] IN
        r.status \in Terminal =>
            /\ (r.result # None) # (r.error_message # None)
            /\ r.end_time # NoTime

Malformed == max_workers < 1 \/ retry < 0 \/ timeout <= 0

\* C14 (as claimed): under a malformed configuration no run() is started, no
\* record is created and no task is executed.
C14_MalformedConfigRejected ==
    Malformed =>
        /\ pc = "idle"
        /\ task_results = <<>>
        /\ futures = <<>>

\* C15 (as claimed): nothing a caller does with the dict returned by
\* get_task_status() changes what get_task_status() and get_statistics() return.
C15_SnapshotIsDefensiveCopy ==
    [][(pc = "returned" /\ pc' = "returned") =>
          /\ get_task_status' = get_task_status
          /\ get_statistics' = get_statistics]_vars

\* C16: the counter is incremented once per task, after the record of that
\* task has its terminal status, its result or error_message and its end_time;
\* each increment logs one progress line with the running completed/total, so
\* the lines read 1/N, 2/N, ... in order; the counter never exceeds N, and an
\* empty batch gives an empty output and no line.
C16_CountedOncePerCompletion ==
    /\ completed_tasks <= total_tasks
    /\ Len(progress) = completed_tasks
    /\ \A p \in 1..Len(progress) :
          progress[p] = [percent |-> (p * 100) \div total_tasks,
                         completed |-> p, total |-> total_tasks]
    /\ completed_tasks <= Len(delivered)
    /\ Len(delivered) <= completed_tasks + 1
    /\ \A p, q \in 1..Len(delivered) : delivered[p] = delivered[q] => p = q
    /\ \A p \in 1..completed_tasks :
          LET r == task_results[delivered[p]] IN
          /\ r.status \in Terminal
          /\ r.status = COMPLETED => r.result = futures[delivered[p]].result
          /\ r.status # COMPLETED => r.error_message # None
          /\ r.end_time # NoTime
    /\ Returned => completed_tasks = Len(tasks)
    /\ (Returned /\ Len(tasks) = 0) => (results = <<>> /\ progress = <<>>)

C16_Witness ==
    /\ Returned
    /\ Len(tasks) = 2
    /\ progress = <<[percent |-> 50, completed |-> 1, total |-> 2],
                    [percent |-> 100, completed |-> 2, total |-> 2]>>
    /\ \E i \in Ids : task_results[i].status # COMPLETED

\* C17: when run() has returned no pool thread is executing a task or sleeping,
\* and from then on no record, counter or output changes, so get_task_status()
\* keeps returning the same snapshot.
C17_NothingRunsAfterReturn ==
    /\ [](Returned => /\ Active = {}
                      /\ \A i \in DOMAIN worker : worker[i].pc = "done"
                      /\ lock = "free")
    /\ [][pc = "returned" =>
            /\ get_task_status' = get_task_status
            /\ UNCHANGED <<total_tasks, completed_tasks, results, progress>>]_vars

C17_Witness ==
    /\ Returned
    /\ max_workers = MaxWorkers
    /\ \E i \in Ids : task_results[i].status = FAILED /\ worker[i].slept > 0
    /\ \E i \in Ids : task_results[i].status = TIMEOUT

\* C18 (as claimed): the span get_statistics() reports is never negative or
\* infinite, and it is zero while no task has started.
C18_SpanZeroOrNonNegative ==
    LET st == get_statistics IN
    "total_time" \in DOMAIN st =>
        /\ st.total_time.inf = 0
        /\ st.total_time.n >= 0
        /\ (\A i \in Ids : task_results[i].start_time = NoTime) =>
              st.total_time = Fin(0)

\* C19 (as claimed): in every state a record has a result only if its status
\* is COMPLETED, an error_message only if its status is FAILED or TIMEOUT, and
\* never both.
C19_ResultOnlyWhenCompleted ==
    \A i \in Ids :
        LET r == task_results[i] IN
        /\ r.result # None => r.status = COMPLETED
        /\ r.error_message # None => r.status \in {FAILED, TIMEOUT}
        /\ ~(r.result # None /\ r.error_message # None)

\* C20 (as claimed): every write of a record field or of the counter during a
\* run is made while self.lock is held.
C20_WritesUnderLock ==
    [][pc # "idle" =>
          /\ completed_tasks' # completed_tasks => lock # "free"
          /\ \A i \in DOMAIN task_results \cap DOMAIN task_results' :
                task_results'[i] # task_results[i] => lock # "free"]_vars

\* C21: with retry limit R >= 0 the work function of a task is invoked at most
\* R+1 times: exactly R+1 times when every attempt fails, exactly k+1 times when
\* the first k <= R attempts fail and attempt k+1 succeeds, and never again once
\* the task has settled; with R = 0 a record is never RETRYING.
C21_AtMostRetryPlusOneCalls ==
    /\ [](\A i \in DOMAIN worker :
            LET t == tasks[i + 1] IN
            /\ worker[i].calls <= retry + 1
            /\ worker[i].calls <= t.fails + 1
            /\ worker[i].pc = "done" =>
                  worker[i].calls = IF t.fails > retry THEN retry + 1
                                    ELSE t.fails + 1
            /\ retry = 0 => task_results[i].status # RETRYING)
    /\ [][\A i \in DOMAIN worker \cap DOMAIN worker' :
            /\ worker'[i].calls \in {worker[i].calls, worker[i].calls + 1}
            /\ worker[i].pc = "done" => worker'[i] = worker[i]]_vars

C21_Witness ==
    /\ Returned
    /\ retry = MaxDeepRetry
    /\ \E i, j \in Ids :
          /\ tasks[i + 1].fails > retry
          /\ worker[i].calls = retry + 1
          /\ futures[i].exception # NoExc
          /\ tasks[j + 1].fails = retry - 1
          /\ worker[j].calls = retry
          /\ futures[j].exception = NoExc

\* the status changes of the specified state machine
SpecifiedTransitions ==
    {<<PENDING, RUNNING>>, <<RUNNING, COMPLETED>>, <<RUNNING, FAILED>>,
     <<RUNNING, RETRYING>>, <<RETRYING, RUNNING>>,
     <<RUNNING, TIMEOUT>>, <<RETRYING, TIMEOUT>>}

\* C22 (as claimed): every change of a record's status is one of the specified
\* state machine, so a RETRYING record passes through RUNNING before it becomes
\* COMPLETED or FAILED.
C22_SpecifiedStateMachine ==
    [][\A i \in DOMAIN task_results \cap DOMAIN task_results' :
          task_results'[i].status # task_results[i].status =>
              <<task_results[i].status, task_results'[i].status>>
                  \in SpecifiedTransitions]_vars

\* C22 (amended): PENDING -> RUNNING at the start of the first attempt;
\* RUNNING -> RETRYING at the head of the first retry, and retry_count is written
\* only at the head of a retry attempt a > 0, to a, with status RETRYING; a
\* record becomes COMPLETED, FAILED or TIMEOUT from RUNNING or from RETRYING; no
\* status is written back to RUNNING and none leaves PENDING but to RUNNING.
C22_StatusTransitions ==
    [][\A i \in DOMAIN task_results \cap DOMAIN task_results' :
          LET r == task_results[i]
              q == task_results'[i]
          IN
          /\ q.status # r.status =>
                \/ r.status = PENDING /\ q.status = RUNNING
                      /\ worker[i].pc = "begin" /\ worker[i].calls = 0
                \/ r.status = RUNNING /\ q.status = RETRYING
                \/ r.status \in {RUNNING, RETRYING} /\ q.status \in Terminal
          /\ (q.status = RETRYING /\ worker'[i].calls # worker[i].calls) =>
                /\ worker[i].attempt > 0
                /\ q.retry_count = worker[i].attempt
          /\ q.retry_count # r.retry_count =>
                /\ q.status = RETRYING
                /\ q.retry_count = worker[i].attempt]_vars

C22_Witness ==
    /\ Returned
    /\ \E i, j \in Ids :
          /\ task_results[i].status = COMPLETED
          /\ task_results[i].retry_count > 0
          /\ task_results[j].status \in {FAILED, TIMEOUT}
          /\ task_results[j].retry_count > 0

\* C23 (as claimed): the class of the error a work function raises does not
\* decide the status: no record is TIMEOUT because its work function raised, and
\* a task whose retries are exhausted ends FAILED with the last error's message.
C23_ClassificationIgnoresErrorType ==
    \A i \in Ids :
        /\ task_results[i].status = TIMEOUT => futures[i].exception = NoExc
        /\ (Returned /\ tasks[i + 1].fails > retry) =>
              /\ task_results[i].status = FAILED
              /\ task_results[i].error_message = ProcessException(tasks[i + 1]).msg

\* m (m + 1) / 2
Triangle(m) == (m * (m + 1)) \div 2

Min(a, b) == IF a <= b THEN a ELSE b

C25_RunReturns ==
    (pc = "submit") ~>
        /\ Returned
        /\ completed_tasks = Len(tasks)
        /\ Len(results) = Len(tasks)
        /\ DOMAIN worker = 0..(Len(tasks) - 1)
        /\ \A i \in DOMAIN worker :
              /\ worker[i].pc = "done"
              /\ i \in Range(settled)
              /\ i \in Range(delivered)

C25_Witness ==
    /\ Returned
    /\ max_workers = 1
    /\ Len(tasks) = MaxTasks
    /\ completed_tasks = MaxTasks
    /\ \E i \in Ids : worker[i].slept > 0 /\ task_results[i].status = FAILED
    /\ ac.snapshot = {}

\* the record of work item t once its run has returned, but for the times
FinalRecord(t) ==
    LET st == StatusAlone(t) IN
    [original_task |-> t,
     result |-> IF st = COMPLETED THEN t.val ELSE None,
     status |-> st,
     error_message |-> IF st = COMPLETED THEN None
                       ELSE MessageOnException(ProcessException(t)),
     retry_count |-> Min(t.fails, retry)]

\* record r without its times
Timeless(r) ==
    [original_task |-> r.original_task, result |-> r.result, status |-> r.status,
     error_message |-> r.error_message, retry_count |-> r.retry_count]

\* C26: a run() called after an earlier run() has returned starts from fresh
\* state: the counter is 0, the total is the size M of the new batch and the
\* record map holds exactly M new PENDING records, ids 0..M-1; a record stays
\* so until a pool thread takes its task; and when that run has returned,
\* get_task_status() and get_statistics() describe the new batch alone.
C26_RerunStartsFresh ==
    /\ [](runs >= 2 =>
            /\ DOMAIN get_task_status = 0..(Len(tasks) - 1)
            /\ total_tasks = Len(tasks)
            /\ completed_tasks <= Len(tasks)
            /\ \A i \in DOMAIN worker :
                  worker[i].pc = "queued" => task_results[i] = TaskResult(tasks[i + 1])
            /\ Returned =>
                  /\ \A i \in DOMAIN get_task_status :
                        Timeless(get_task_status[i]) = FinalRecord(tasks[i + 1])
                  /\ IF Len(tasks) >= 1
                     THEN ReportsBatch(get_statistics, Len(tasks))
                     ELSE get_statistics = [status |-> "no tasks executed"])
    /\ [][(pc = "returned" /\ pc' # "returned") =>
            /\ completed_tasks' = 0
            /\ total_tasks' = Len(tasks')
            /\ DOMAIN task_results' = 0..(Len(tasks') - 1)
            /\ \A i \in DOMAIN task_results' :
                  task_results'[i] = TaskResult(tasks'[i + 1])]_vars

C26_Witness ==
    /\ Returned
    /\ runs = 2
    /\ Len(progress) = 3
    /\ progress[1].total = 2
    /\ progress[3].total = 1
    /\ DOMAIN get_task_status = {0}
    /\ get_task_status[0].status = COMPLETED
    /\ get_task_status[0].retry_count = 0
    /\ get_statistics.completed = 1

====
